---- MODULE Spec2Model ----
(***************************************************************************)
(* Model of the formal-systems-toolbox crate: the judgement algebra, the   *)
(* substitution-aware unifier and the backtracking prover of logic.rs.     *)
(*                                                                         *)
(* A Symbol (a Rust String) is a sequence of one-character strings, so     *)
(* that next_name, Display and the widths of the pretty printer work on    *)
(* the characters as the code does.                                        *)
(***************************************************************************)
EXTENDS Integers, Sequences, FiniteSets, TLC

VARIABLES
    pc,             \* position of the caller
    left, right,    \* the two judgements handed to unify
    table,          \* a UnificationTable threaded through calls
    unification,    \* what the last unify call returned
    applied,        \* apply_substitution of left and right
    calls,          \* number of unify_with_substitution calls made on table
    axioms,         \* FormalSystem.axioms
    max_derivation_height,  \* FormalSystem.max_derivation_height
    goal,           \* the judgement handed to verify
    bin,            \* the HashSet<String> of verify, shared by every verify_recursion
    stack,          \* the verify_recursion calls in progress, the innermost last
    returned,       \* what the verify_recursion call that ended last returned
    result,         \* what verify returned
    runs,           \* number of verify calls started on the FormalSystem
    previous,       \* what the verify call before the last returned
    overflow_checks,  \* the build panics on integer overflow (debug) or wraps (release)
    candidate,      \* new_symbol of the renaming closure (line 261)
    taken,          \* variables of the renaming closure (lines 252-256)
    subgoals,       \* two (judgement, substitutions) pairs whose keys are computed
    keys,           \* normalized_judgement of the two subgoals (lines 294-306)
    printed,        \* the Derivation handed to pretty_print
    lines           \* what pretty_print returned


(***************************************************************************)
(* Judgement: Variable(String) | Operator { predicate, subjects }          *)
(***************************************************************************)
Variable(symbol) == [variant |-> "Variable", symbol |-> symbol, subjects |-> <<>>]

Operator(predicate, subjects) ==
    [variant |-> "Operator", symbol |-> predicate, subjects |-> subjects]

var(name) == Variable(name)

constant(name) == Operator(name, <<>>)

IsVariable(j) == j.variant = "Variable"

(***************************************************************************)
(* Outcome of a recursion that never returns (the Rust call overflows its  *)
(* stack): a distinguished value that every caller propagates.             *)
(***************************************************************************)
Diverged == [variant |-> "Diverged", symbol |-> <<>>, subjects |-> <<>>]

(***************************************************************************)
(* UnificationTable = HashMap<String, Judgement>: a function whose domain  *)
(* is the set of bound names.                                              *)
(***************************************************************************)
EmptyTable == [k \in {} |-> Diverged]

insert(substitutions, key, value) ==
    [k \in DOMAIN substitutions \cup {key} |->
        IF k = key THEN value ELSE substitutions[k]]

\* HashMap::extend: every entry of other is inserted, overwriting.
\* Line 323 without its effect: the bindings of the proved premise are lost.
extend_nothing(substitutions, other) ==
    substitutions

extend(substitutions, other) ==
    [k \in DOMAIN substitutions \cup DOMAIN other |->
        IF k \in DOMAIN other THEN other[k] ELSE substitutions[k]]

(***************************************************************************)
(* Judgement::get_variables                                                *)
(***************************************************************************)
RECURSIVE get_variables(_)
get_variables(j) ==
    IF IsVariable(j) THEN {j.symbol}
    ELSE UNION {get_variables(j.subjects[i]) : i \in DOMAIN j.subjects}

(***************************************************************************)
(* Judgement::apply_substitution.  The table is not changed during the     *)
(* call, so the recursion fails to return exactly when it meets a bound    *)
(* variable it is already expanding: visiting holds the variables being    *)
(* expanded on the current path.                                           *)
(***************************************************************************)
RECURSIVE apply_visiting(_, _, _)
apply_visiting(j, substitutions, visiting) ==
    IF IsVariable(j)
    THEN IF j.symbol \in DOMAIN substitutions
         THEN IF j.symbol \in visiting
              THEN Diverged
              ELSE apply_visiting(substitutions[j.symbol], substitutions,
                                  visiting \cup {j.symbol})
         ELSE j
    ELSE LET subjects == [i \in DOMAIN j.subjects |->
                            apply_visiting(j.subjects[i], substitutions, visiting)]
         IN IF \E i \in DOMAIN subjects : subjects[i] = Diverged
            THEN Diverged
            ELSE Operator(j.symbol, subjects)

\* apply_substitution that replaces a bound variable by its binding without
\* applying the table to the binding.
apply_one_step(j, substitutions) ==
    IF IsVariable(j)
    THEN (IF j.symbol \in DOMAIN substitutions THEN substitutions[j.symbol] ELSE j)
    ELSE Operator(j.symbol,
                  [i \in DOMAIN j.subjects |->
                      IF IsVariable(j.subjects[i])
                         /\ j.subjects[i].symbol \in DOMAIN substitutions
                      THEN substitutions[j.subjects[i].symbol]
                      ELSE j.subjects[i]])

apply_substitution(j, substitutions) == apply_visiting(j, substitutions, {})

(***************************************************************************)
(* Judgement::variable_occurs_with_substitution: "true", "false", or       *)
(* "diverged" when the walk never returns.  The subjects are visited in    *)
(* order and the first one that holds the variable ends the walk.          *)
(***************************************************************************)
RECURSIVE occurs_visiting(_, _, _, _)
RECURSIVE occurs_subjects(_, _, _, _, _)
occurs_visiting(j, variable, substitutions, visiting) ==
    IF IsVariable(j)
    THEN IF j.symbol \in DOMAIN substitutions
         THEN IF j.symbol \in visiting
              THEN "diverged"
              ELSE occurs_visiting(substitutions[j.symbol], variable, substitutions,
                                   visiting \cup {j.symbol})
         ELSE IF j.symbol = variable THEN "true" ELSE "false"
    ELSE occurs_subjects(j.subjects, 1, variable, substitutions, visiting)

occurs_subjects(subjects, i, variable, substitutions, visiting) ==
    IF i > Len(subjects) THEN "false"
    ELSE LET here == occurs_visiting(subjects[i], variable, substitutions, visiting)
         IN IF here = "false"
            THEN occurs_subjects(subjects, i + 1, variable, substitutions, visiting)
            ELSE here

variable_occurs_with_substitution(j, variable, substitutions) ==
    occurs_visiting(j, variable, substitutions, {})

(***************************************************************************)
(* Result<(), String> of unify_with_substitution, together with the table  *)
(* as the call leaves it: the table is a &mut argument, so the bindings    *)
(* made before an error stay in it.                                        *)
(***************************************************************************)
NoError == [kind |-> "none", left |-> <<>>, right |-> <<>>]

RecursiveUnification == [kind |-> "Recursive unification!", left |-> <<>>, right |-> <<>>]

DifferentPredicates(predicate_left, predicate_right) ==
    [kind |-> "Different predicates: {} != {}",
     left |-> predicate_left, right |-> predicate_right]

DifferentArieties(len_left, len_right) ==
    [kind |-> "Predicates with different arieties: {} and {}",
     left |-> <<len_left>>, right |-> <<len_right>>]

Ok(substitutions) ==
    [status |-> "Ok", error |-> NoError, substitutions |-> substitutions]

Err(error, substitutions) ==
    [status |-> "Err", error |-> error, substitutions |-> substitutions]

NoReturn(substitutions) ==
    [status |-> "Diverged", error |-> NoError, substitutions |-> substitutions]

\* Depth of nested unify_with_substitution calls after which the model
\* reports the call as not returning.
MaxUnifyDepth == 16

(***************************************************************************)
(* Judgement::unify_with_substitution.  The match arms in order:           *)
(*   (Variable(l), Variable(r)) if l == r                                  *)
(*   (judgement, Variable(symbol)) | (Variable(symbol), judgement)         *)
(*   (Operator, Operator)                                                  *)
(***************************************************************************)
\* bind that follows no binding and descends into no operator when it looks
\* for the variable.
bind_shallow_occurs(judgement, symbol, substitutions) ==
    IF IsVariable(judgement) /\ judgement.symbol = symbol
    THEN Err(RecursiveUnification, substitutions)
    ELSE Ok(insert(substitutions, symbol, judgement))

\* bind with the insert left out.
bind_without_insert(judgement, symbol, substitutions) ==
    LET occurs == variable_occurs_with_substitution(judgement, symbol, substitutions)
    IN IF occurs = "diverged" THEN NoReturn(substitutions)
       ELSE IF occurs = "true" THEN Err(RecursiveUnification, substitutions)
       ELSE Ok(substitutions)

\* Lines 82-85: the occurs-check on the table as it is now, then the insert.
bind(judgement, symbol, substitutions) ==
    LET occurs == variable_occurs_with_substitution(judgement, symbol, substitutions)
    IN IF occurs = "diverged" THEN NoReturn(substitutions)
       ELSE IF occurs = "true" THEN Err(RecursiveUnification, substitutions)
       ELSE Ok(insert(substitutions, symbol, judgement))

\* mismatch with the predicates never compared.
mismatch_ignoring_predicates(self, other) ==
    IF Len(self.subjects) # Len(other.subjects)
    THEN DifferentArieties(Len(self.subjects), Len(other.subjects))
    ELSE NoError

\* mismatch with the two tests in the other order.
mismatch_arity_first(self, other) ==
    IF Len(self.subjects) # Len(other.subjects)
    THEN DifferentArieties(Len(self.subjects), Len(other.subjects))
    ELSE IF self.symbol # other.symbol
    THEN DifferentPredicates(self.symbol, other.symbol)
    ELSE NoError

\* Lines 97-108: the predicates are compared first, then the subject counts.
mismatch(self, other) ==
    IF self.symbol # other.symbol
    THEN DifferentPredicates(self.symbol, other.symbol)
    ELSE IF Len(self.subjects) # Len(other.subjects)
    THEN DifferentArieties(Len(self.subjects), Len(other.subjects))
    ELSE NoError

RECURSIVE unify_depth(_, _, _, _)
RECURSIVE unify_subjects(_, _, _, _, _)
unify_depth(self, other, substitutions, depth) ==
    IF depth > MaxUnifyDepth THEN NoReturn(substitutions)
    ELSE IF IsVariable(self) /\ IsVariable(other) /\ self.symbol = other.symbol
    THEN Ok(substitutions)
    ELSE IF IsVariable(other) \/ IsVariable(self)
    THEN LET symbol == IF IsVariable(other) THEN other.symbol ELSE self.symbol
             judgement == IF IsVariable(other) THEN self ELSE other
             bound == IF symbol \in DOMAIN substitutions
                      THEN unify_depth(judgement, substitutions[symbol],
                                       substitutions, depth + 1)
                      ELSE Ok(substitutions)
         IN IF bound.status # "Ok" THEN bound
            ELSE bind(judgement, symbol, bound.substitutions)
    ELSE IF mismatch(self, other) # NoError
    THEN Err(mismatch(self, other), substitutions)
    ELSE unify_subjects(self.subjects, other.subjects, 1, substitutions, depth)

\* Lines 110-112: the pairs of zip(subjects_left, subjects_right) in order,
\* the first error returned by the ? operator.
unify_subjects(subjects_left, subjects_right, i, substitutions, depth) ==
    IF i > Len(subjects_left) \/ i > Len(subjects_right) THEN Ok(substitutions)
    ELSE LET pair == unify_depth(subjects_left[i], subjects_right[i],
                                 substitutions, depth + 1)
         IN IF pair.status # "Ok" THEN pair
            ELSE unify_subjects(subjects_left, subjects_right, i + 1,
                                pair.substitutions, depth)

unify_with_substitution(self, other, substitutions) ==
    unify_depth(self, other, substitutions, 0)

(***************************************************************************)
(* Judgement::unify: starts from an empty table; Err carries the message   *)
(* alone, the table is dropped.                                            *)
(***************************************************************************)
unify(self, other) ==
    LET done == unify_with_substitution(self, other, EmptyTable)
    IN IF done.status = "Ok" THEN done
       ELSE [done EXCEPT !.substitutions = EmptyTable]

(***************************************************************************)
(* Characters and numbers of names.                                        *)
(***************************************************************************)
Digits == <<"0", "1", "2", "3", "4", "5", "6", "7", "8", "9">>

\* char::is_digit(10)
is_digit(c) == \E d \in DOMAIN Digits : Digits[d] = c

DigitValue(c) == (CHOOSE d \in DOMAIN Digits : Digits[d] = c) - 1

\* The digits without their leading zeros (one digit at least is kept).
RECURSIVE strip_leading_zeros(_)
strip_leading_zeros(number) ==
    IF Len(number) > 1 /\ number[1] = "0" THEN strip_leading_zeros(Tail(number))
    ELSE number

\* u32::MAX, 4294967295, as digits: the numbers of names are kept as digit
\* sequences, whatever their size.
U32MaxDigits == <<"4", "2", "9", "4", "9", "6", "7", "2", "9", "5">>

RECURSIVE digits_greater(_, _)
\* a > b for two digit sequences of the same length.
digits_greater(a, b) ==
    IF a = <<>> THEN FALSE
    ELSE IF DigitValue(a[1]) # DigitValue(b[1]) THEN DigitValue(a[1]) > DigitValue(b[1])
    ELSE digits_greater(Tail(a), Tail(b))

\* u32::from_str_radix(number, 10) is Err: the value exceeds u32::MAX.
parse_overflows(number) ==
    LET value == strip_leading_zeros(number)
    IN \/ Len(value) > Len(U32MaxDigits)
       \/ Len(value) = Len(U32MaxDigits) /\ digits_greater(value, U32MaxDigits)

RECURSIVE increment(_)
\* The digits of value + 1, for the digits of value.
increment(value) ==
    IF value = <<>> THEN <<"1">>
    ELSE LET last == DigitValue(value[Len(value)])
             front == SubSeq(value, 1, Len(value) - 1)
         IN IF last < 9 THEN front \o <<Digits[last + 2]>>
            ELSE increment(front) \o <<"0">>

\* What a call returns that panicked ("attempt to add with overflow"); no
\* name is this sequence, the characters of a name being single.
Panicked == <<"panicked">>

\* format!("{}", number + 1) for a parsed u32: u32::MAX + 1 panics in a
\* build with overflow checks and wraps to 0 in a build without.
plus_one_to_string(number) ==
    LET value == strip_leading_zeros(number)
    IN IF value = U32MaxDigits
       THEN IF overflow_checks THEN Panicked ELSE <<"0">>
       ELSE increment(value)

\* format!("{}", n) for a small count n.
RECURSIVE to_string_number(_)
to_string_number(n) ==
    IF n < 10 THEN <<Digits[n + 1]>>
    ELSE to_string_number(n \div 10) \o <<Digits[(n % 10) + 1]>>

(***************************************************************************)
(* next_name: base is the characters before the first digit, number the    *)
(* digits that follow; a character after the digits that is no digit, no   *)
(* digit at all, or a number that does not parse as u32 gives name + "1".  *)
(***************************************************************************)
next_name(name) ==
    LET name_plus_one == name \o <<"1">>
        digits == {i \in DOMAIN name : is_digit(name[i])}
        first == CHOOSE i \in digits : \A k \in digits : i <= k
        base == SubSeq(name, 1, first - 1)
        number == SubSeq(name, first, Len(name))
    IN IF digits = {} THEN name_plus_one
       ELSE IF \E i \in first..Len(name) : ~is_digit(name[i]) THEN name_plus_one
       ELSE IF parse_overflows(number) THEN name_plus_one
       ELSE IF plus_one_to_string(number) = Panicked THEN Panicked
       ELSE base \o plus_one_to_string(number)

(***************************************************************************)
(* The two closures handed to rename_variables.                            *)
(*   fresh (lines 260-266): next_name until the name is not in variables;  *)
(*   canonical (lines 296-305): x1, x2, ... in order of first encounter,   *)
(*   the state being the map of the names already met.                     *)
(***************************************************************************)
\* Lines 262-264 with `if` for `while`: next_name is applied once.
fresh_symbol_once(new_symbol, variables) ==
    IF new_symbol \in variables THEN next_name(new_symbol) ELSE new_symbol

RECURSIVE fresh_symbol(_, _)
fresh_symbol(new_symbol, variables) ==
    IF new_symbol = Panicked THEN Panicked
    ELSE IF new_symbol \in variables
    THEN fresh_symbol(next_name(new_symbol), variables)
    ELSE new_symbol

FreshClosure(variables) == [kind |-> "fresh", variables |-> variables]

CanonicalClosure == [kind |-> "canonical", variables |-> {}]

NoState == [k \in {} |-> <<>>]

\* closure(state, symbol): the new symbol and the state the closure leaves.
call_closure(closure, state, symbol) ==
    IF closure.kind = "fresh"
    THEN [symbol |-> fresh_symbol(symbol, closure.variables), state |-> state]
    ELSE IF symbol \in DOMAIN state
    THEN [symbol |-> state[symbol], state |-> state]
    ELSE LET counter == Cardinality(DOMAIN state) + 1
             new_symbol == <<"x">> \o to_string_number(counter)
         IN [symbol |-> new_symbol,
             state |-> [k \in DOMAIN state \cup {symbol} |->
                           IF k = symbol THEN new_symbol ELSE state[k]]]

(***************************************************************************)
(* Judgement::rename_variables(state, f): every Variable(n) becomes        *)
(* Variable(f(state, n)), the subjects being visited from the left with    *)
(* the state threaded through them.                                        *)
(***************************************************************************)
RECURSIVE rename_variables(_, _, _)
RECURSIVE rename_subjects(_, _, _, _, _)
rename_variables(j, state, closure) ==
    IF IsVariable(j)
    THEN LET renamed == call_closure(closure, state, j.symbol)
         IN [judgement |-> Variable(renamed.symbol), state |-> renamed.state]
    ELSE LET subjects == rename_subjects(j.subjects, 1, <<>>, state, closure)
         IN [judgement |-> Operator(j.symbol, subjects.judgements),
             state |-> subjects.state]

rename_subjects(subjects, i, done, state, closure) ==
    IF i > Len(subjects) THEN [judgements |-> done, state |-> state]
    ELSE LET renamed == rename_variables(subjects[i], state, closure)
         IN rename_subjects(subjects, i + 1, Append(done, renamed.judgement),
                            renamed.state, closure)

(***************************************************************************)
(* Rule { name, premises, conclusion } and Rule::rename_variables, which   *)
(* renames every judgement of the rule.                                    *)
(***************************************************************************)
Rule(name, premises, conclusion) ==
    [name |-> name, premises |-> premises, conclusion |-> conclusion]

taut(name, judgement) == Rule(name, <<>>, judgement)

rename_rule(rule, state, closure) ==
    LET premises == rename_subjects(rule.premises, 1, <<>>, state, closure)
        conclusion == rename_variables(rule.conclusion, premises.state, closure)
    IN Rule(rule.name, premises.judgements, conclusion.judgement)

(***************************************************************************)
(* impl Display for Judgement: the characters of to_string().              *)
(***************************************************************************)
RECURSIVE to_string(_)
RECURSIVE subjects_to_string(_, _)
to_string(j) ==
    IF IsVariable(j) THEN j.symbol
    ELSE j.symbol \o <<"(">> \o subjects_to_string(j.subjects, 1) \o <<")">>

subjects_to_string(subjects, i) ==
    IF i > Len(subjects) THEN <<>>
    ELSE to_string(subjects[i])
         \o (IF i # Len(subjects) THEN <<",", " ">> ELSE <<>>)
         \o subjects_to_string(subjects, i + 1)

(***************************************************************************)
(* Derivation { premises, conclusion, rule_label }                         *)
(***************************************************************************)
Derivation(premises, conclusion, rule_label) ==
    [premises |-> premises, conclusion |-> conclusion, rule_label |-> rule_label]

\* Lines 128-138 without the map over the premises of line 131.
derivation_apply_root_only(self, substitutions) ==
    Derivation(self.premises,
               apply_substitution(self.conclusion, substitutions),
               self.rule_label)

RECURSIVE derivation_apply_substitution(_, _)
derivation_apply_substitution(self, substitutions) ==
    Derivation([i \in DOMAIN self.premises |->
                   derivation_apply_substitution(self.premises[i], substitutions)],
               apply_substitution(self.conclusion, substitutions),
               self.rule_label)

(***************************************************************************)
(* itertools permutations(len) of the positions 1..len, in lexicographic   *)
(* order of positions; one empty permutation when len = 0.                 *)
(***************************************************************************)
RECURSIVE permutations_of(_)
permutations_of(positions) ==
    IF positions = <<>> THEN <<<<>>>>
    ELSE LET without(i) == SubSeq(positions, 1, i - 1)
                           \o SubSeq(positions, i + 1, Len(positions))
             starting(i) == LET rest == permutations_of(without(i))
                            IN [k \in DOMAIN rest |-> <<positions[i]>> \o rest[k]]
             RECURSIVE from(_)
             from(i) == IF i > Len(positions) THEN <<>>
                        ELSE starting(i) \o from(i + 1)
         IN from(1)

\* The permutations of the positions 1..len, the last first.
permutations_last_first(len) ==
    LET forward == permutations_of([i \in 1..len |-> i])
    IN [k \in DOMAIN forward |-> forward[Len(forward) + 1 - k]]

permutations(len) == permutations_of([i \in 1..len |-> i])

(***************************************************************************)
(* FormalSystem::get_possible_derivation_paths: the forbidden names are    *)
(* collected once; every axiom is renamed, unified with the judgement on   *)
(* a clone of the table, and kept with that clone when the unifier         *)
(* returns Ok.                                                             *)
(***************************************************************************)
forbidden_variables(substitutions, judgement) ==
    get_variables(judgement)
    \cup DOMAIN substitutions
    \cup UNION {get_variables(substitutions[key]) : key \in DOMAIN substitutions}

RECURSIVE paths_from(_, _, _)
paths_from(i, substitutions, judgement) ==
    IF i > Len(axioms) THEN <<>>
    ELSE LET axiom == rename_rule(axioms[i], NoState,
                          FreshClosure(forbidden_variables(substitutions, judgement)))
             unified == unify_with_substitution(judgement, axiom.conclusion, substitutions)
         IN (IF unified.status = "Ok"
             THEN <<[substitutions |-> unified.substitutions, rule |-> axiom]>>
             ELSE <<>>)
            \o paths_from(i + 1, substitutions, judgement)

get_possible_derivation_paths(substitutions, judgement) ==
    paths_from(1, substitutions, judgement)

\* next_name panicked while an axiom was renamed (lines 260-266).
renaming_panics(substitutions, judgement) ==
    \E i \in DOMAIN axioms :
        LET axiom == rename_rule(axioms[i], NoState,
                         FreshClosure(forbidden_variables(substitutions, judgement)))
        IN Panicked \in get_variables(axiom.conclusion)
                        \cup UNION {get_variables(axiom.premises[k]) :
                                       k \in DOMAIN axiom.premises}

(***************************************************************************)
(* The key of a goal in bin (lines 294-306): the table applied, the        *)
(* variables renamed to x1, x2, ..., the result printed.                   *)
(***************************************************************************)
normalized_judgement(judgement, substitutions) ==
    to_string(rename_variables(apply_substitution(judgement, substitutions),
                               NoState, CanonicalClosure).judgement)

(***************************************************************************)
(* Inputs of the unifier: every judgement of at most MaxSize nodes over    *)
(* three variables and two predicates; f is used with 0, 1 and 2 subjects  *)
(* and g with 0 and 1, so arities can differ under one predicate.          *)
(***************************************************************************)
MaxSize == 4

VariableNames == {<<"x">>, <<"y">>, <<"z">>}

Arities == [predicate \in {<<"f">>, <<"g">>} |->
               IF predicate = <<"f">> THEN {0, 1, 2} ELSE {0, 1}]

RECURSIVE JudgementsOfSize(_)
RECURSIVE SubjectsOfSize(_, _)
\* The sequences of count judgements with size nodes in all.
SubjectsOfSize(count, size) ==
    IF count = 0 THEN (IF size = 0 THEN {<<>>} ELSE {})
    ELSE UNION {{<<first>> \o rest : first \in JudgementsOfSize(n),
                                     rest \in SubjectsOfSize(count - 1, size - n)}
                : n \in 1..(size - count + 1)}

JudgementsOfSize(size) ==
    IF size < 1 THEN {}
    ELSE (IF size = 1 THEN {Variable(name) : name \in VariableNames} ELSE {})
         \cup UNION {UNION {{Operator(predicate, subjects) :
                                subjects \in SubjectsOfSize(count, size - 1)}
                            : count \in Arities[predicate]}
                     : predicate \in DOMAIN Arities}

Judgements == UNION {JudgementsOfSize(size) : size \in 1..MaxSize}

NoJudgement == Diverged

NoUnification == [status |-> "none", error |-> NoError, substitutions |-> EmptyTable]

unifier_vars == <<left, right, table, unification, applied, calls>>

system_vars == <<axioms, max_derivation_height, goal, overflow_checks>>

naming_vars == <<candidate, taken>>

key_vars == <<subgoals, keys>>

printer_vars == <<printed, lines>>

function_vars == <<naming_vars, key_vars, printer_vars>>

prover_vars == <<system_vars, bin, stack, returned, result, runs, previous, function_vars>>

vars == <<pc, unifier_vars, prover_vars>>

NoDerivation == [premises |-> <<>>, conclusion |-> NoJudgement, rule_label |-> <<>>]

\* Option<(Derivation, UnificationTable)> and Option<Derivation>
None == [some |-> FALSE, proof |-> NoDerivation, substitutions |-> EmptyTable]

Some(proof, substitutions) ==
    [some |-> TRUE, proof |-> proof, substitutions |-> substitutions]

\* The renaming closure not called.
NamingIdle ==
    /\ candidate = <<>>
    /\ taken = {}

\* normalized_judgement not computed.
KeyIdle ==
    /\ subgoals = <<>>
    /\ keys = <<>>

\* pretty_print not called.
PrinterIdle ==
    /\ printed = NoDerivation
    /\ lines = <<>>

\* No FormalSystem built and no verify call made.
ProverVarsIdle ==
    /\ axioms = <<>>
    /\ max_derivation_height = 0
    /\ goal = NoJudgement
    /\ bin = {}
    /\ stack = <<>>
    /\ returned = None
    /\ result = None
    /\ runs = 0
    /\ previous = None
    /\ overflow_checks = FALSE

\* The prover at rest, for the specifications that only call the unifier.
ProverIdle ==
    /\ ProverVarsIdle
    /\ NamingIdle
    /\ KeyIdle
    /\ PrinterIdle

UnifierIdle ==
    /\ left = NoJudgement
    /\ right = NoJudgement
    /\ table = EmptyTable
    /\ unification = NoUnification
    /\ applied = <<NoJudgement, NoJudgement>>
    /\ calls = 0

(***************************************************************************)
(* The tests var_unification and operator_unification: unify two           *)
(* judgements, then apply the returned table to both.                      *)
(***************************************************************************)
UnifyInit ==
    /\ pc = "start"
    /\ left \in Judgements
    /\ right \in Judgements
    /\ table = EmptyTable
    /\ unification = NoUnification
    /\ applied = <<NoJudgement, NoJudgement>>
    /\ calls = 0
    /\ ProverIdle

Unify ==
    /\ pc = "start"
    /\ unification' = unify(left, right)
    /\ table' = unification'.substitutions
    /\ pc' = "unified"
    /\ UNCHANGED <<left, right, applied, calls, prover_vars>>

Apply ==
    /\ pc = "unified"
    /\ unification.status = "Ok"
    /\ applied' = <<apply_substitution(left, table), apply_substitution(right, table)>>
    /\ pc' = "applied"
    /\ UNCHANGED <<left, right, table, unification, calls, prover_vars>>

UnifyNext == Unify \/ Apply

UnifySpec == UnifyInit /\ [][UnifyNext]_vars

(***************************************************************************)
(* Reference notions used to state the properties of the unifier.          *)
(***************************************************************************)
RECURSIVE Replace(_, _, _)
\* The judgement j with every occurrence of the variable name replaced by by.
Replace(j, name, by) ==
    IF IsVariable(j) THEN (IF j.symbol = name THEN by ELSE j)
    ELSE Operator(j.symbol, [i \in DOMAIN j.subjects |-> Replace(j.subjects[i], name, by)])

RECURSIVE Solvable(_)
\* Textbook unification of a sequence of equations <<s, t>>: TRUE iff one
\* finite substitution makes both sides of every equation equal.
Solvable(equations) ==
    IF equations = <<>> THEN TRUE
    ELSE LET s == equations[1][1]
             t == equations[1][2]
             rest == Tail(equations)
             Eliminate(name, by) ==
                 Solvable([i \in DOMAIN rest |->
                     <<Replace(rest[i][1], name, by), Replace(rest[i][2], name, by)>>])
         IN IF s = t THEN Solvable(rest)
            ELSE IF IsVariable(s)
            THEN s.symbol \notin get_variables(t) /\ Eliminate(s.symbol, t)
            ELSE IF IsVariable(t)
            THEN t.symbol \notin get_variables(s) /\ Eliminate(t.symbol, s)
            ELSE /\ s.symbol = t.symbol
                 /\ Len(s.subjects) = Len(t.subjects)
                 /\ Solvable([i \in DOMAIN s.subjects |-> <<s.subjects[i], t.subjects[i]>>]
                             \o rest)

Unifiable(a, b) == Solvable(<<<<a, b>>>>)

\* The variable names some binding chain of the table leads to from name.
RECURSIVE ReachableFrom(_, _, _)
ReachableFrom(names, substitutions, steps) ==
    IF steps = 0 THEN names
    ELSE ReachableFrom(
            names \cup UNION {get_variables(substitutions[n]) :
                                n \in names \cap DOMAIN substitutions},
            substitutions, steps - 1)

\* No variable is reachable from itself by following bindings.
Acyclic(substitutions) ==
    \A name \in DOMAIN substitutions :
        name \notin ReachableFrom(get_variables(substitutions[name]), substitutions,
                                  Cardinality(DOMAIN substitutions))

(***************************************************************************)
(* C1: unification soundness.  When unify(left, right) returns Ok, the     *)
(* returned table applied to left and to right gives structurally equal    *)
(* judgements (and both applications return).                              *)
(***************************************************************************)
C1_UnificationSound ==
    pc = "applied" => /\ applied[1] = applied[2]
                      /\ applied[1] # Diverged

C1_Witness ==
    /\ pc = "applied"
    /\ left # right
    /\ applied[1] # left
    /\ applied[2] # right
    /\ Cardinality(DOMAIN table) >= 2

(***************************************************************************)
(* C2: the unifier decides unifiability: unify(left, right) returns Ok     *)
(* exactly when left and right have a common finite instance, so it never  *)
(* answers "Recursive unification!" on a unifiable pair.                   *)
(***************************************************************************)
C2_UnifierDecidesUnifiability ==
    pc = "unified" => (unification.status = "Ok" <=> Unifiable(left, right))

(***************************************************************************)
(* C3: occurs-check on both symmetric variable cases.  For a variable x    *)
(* and an operator term t in which x occurs, unify(var(x), t) and          *)
(* unify(t, var(x)) return the "Recursive unification!" error and no       *)
(* table reaches the caller.                                               *)
(***************************************************************************)
OccursCase(v, t) ==
    IsVariable(v) /\ ~IsVariable(t) /\ v.symbol \in get_variables(t)

C3_OccursCheckBothSides ==
    (pc = "unified" /\ (OccursCase(left, right) \/ OccursCase(right, left)))
        => /\ unification.status = "Err"
           /\ unification.error.kind = RecursiveUnification.kind
           /\ unification.substitutions = EmptyTable

C3_Witness ==
    /\ pc = "unified"
    /\ OccursCase(right, left)
    /\ Len(left.subjects) = 2
    /\ unification.status = "Err"

(***************************************************************************)
(* C6: symmetry of variable binding.  For a variable x and a judgement a   *)
(* in which x does not occur, unify(a, var(x)) and unify(var(x), a) both   *)
(* return Ok, each returned table sends var(x) and a to the same term, and *)
(* when a is an operator term both tables are exactly the binding x |-> a. *)
(***************************************************************************)
SymmetricCase == IsVariable(right) /\ right.symbol \notin get_variables(left)

C6_VariableBindingSymmetric ==
    (pc = "unified" /\ SymmetricCase) =>
        LET mirrored == unify(right, left)
            Agrees(u) == /\ u.status = "Ok"
                         /\ apply_substitution(right, u.substitutions)
                              = apply_substitution(left, u.substitutions)
                         /\ apply_substitution(left, u.substitutions) # Diverged
        IN /\ Agrees(unification)
           /\ Agrees(mirrored)
           /\ ~IsVariable(left) =>
                /\ unification.substitutions = insert(EmptyTable, right.symbol, left)
                /\ mirrored.substitutions = insert(EmptyTable, right.symbol, left)

C6_Witness ==
    /\ pc = "unified"
    /\ SymmetricCase
    /\ Len(left.subjects) = 2
    /\ get_variables(left) # {}
    /\ unification.status = "Ok"

(***************************************************************************)
(* C7: structural mismatch errors.  For two operator terms: different      *)
(* predicates give the predicate-mismatch error whatever the subject       *)
(* counts; equal predicates with different subject counts give the arity   *)
(* error; otherwise the subjects are unified pairwise from the left and    *)
(* the result is the error of the first pair that fails.                   *)
(***************************************************************************)
\* Two errors are the same message: the same format and the same arguments.
SameError(error, expected) ==
    /\ error.kind = expected.kind
    /\ error.left = expected.left
    /\ error.right = expected.right

RECURSIVE TableBeforePair(_, _, _)
\* The table after the pairs 1..(i - 1) of the subjects were unified in order.
TableBeforePair(subjects_left, subjects_right, i) ==
    IF i = 1 THEN EmptyTable
    ELSE unify_with_substitution(
            subjects_left[i - 1], subjects_right[i - 1],
            TableBeforePair(subjects_left, subjects_right, i - 1)).substitutions

PairOutcome(i) ==
    unify_with_substitution(left.subjects[i], right.subjects[i],
                            TableBeforePair(left.subjects, right.subjects, i))

C7_StructuralMismatchErrors ==
    (pc = "unified" /\ ~IsVariable(left) /\ ~IsVariable(right)) =>
        IF left.symbol # right.symbol
        THEN /\ unification.status = "Err"
             /\ SameError(unification.error,
                          DifferentPredicates(left.symbol, right.symbol))
        ELSE IF Len(left.subjects) # Len(right.subjects)
        THEN /\ unification.status = "Err"
             /\ SameError(unification.error,
                          DifferentArieties(Len(left.subjects), Len(right.subjects)))
        ELSE LET failing == {i \in DOMAIN left.subjects : PairOutcome(i).status # "Ok"}
             IN IF failing = {}
                THEN unification.status = "Ok"
                ELSE LET first == CHOOSE i \in failing : \A k \in failing : i <= k
                     IN /\ unification.status = PairOutcome(first).status
                        /\ SameError(unification.error, PairOutcome(first).error)

C7_Witness ==
    /\ pc = "unified"
    /\ ~IsVariable(left) /\ ~IsVariable(right)
    /\ left.symbol = right.symbol
    /\ Len(left.subjects) = 2 /\ Len(right.subjects) = 2
    /\ PairOutcome(1).status = "Err"
    /\ PairOutcome(2).status = "Err"
    /\ PairOutcome(1).error.kind = "Predicates with different arieties: {} and {}"
    /\ PairOutcome(2).error.kind # PairOutcome(1).error.kind

(***************************************************************************)
(* apply_substitution on its own: a judgement and a table, which need not  *)
(* come from the unifier, applied once and then once more to the result.   *)
(***************************************************************************)
MaxBindingSize == 2

BindingJudgements == UNION {JudgementsOfSize(size) : size \in 1..MaxBindingSize}

ApplyJudgements == UNION {JudgementsOfSize(size) : size \in 1..(MaxBindingSize + 1)}

BoundNames == {<<"x">>, <<"y">>}

Tables == UNION {[names -> BindingJudgements] : names \in SUBSET BoundNames}

ApplyInit ==
    /\ pc = "apply"
    /\ left \in ApplyJudgements
    /\ right = NoJudgement
    /\ table \in Tables
    /\ unification = NoUnification
    /\ applied = <<NoJudgement, NoJudgement>>
    /\ calls = 0
    /\ ProverIdle

ApplyOnce ==
    /\ pc = "apply"
    /\ applied' = <<apply_substitution(left, table), NoJudgement>>
    /\ pc' = IF applied'[1] = Diverged THEN "overflow" ELSE "once"
    /\ UNCHANGED <<left, right, table, unification, calls, prover_vars>>

ApplyTwice ==
    /\ pc = "once"
    /\ applied' = <<applied[1], apply_substitution(applied[1], table)>>
    /\ pc' = "twice"
    /\ UNCHANGED <<left, right, table, unification, calls, prover_vars>>

ApplyNext == ApplyOnce \/ ApplyTwice

ApplySpec == ApplyInit /\ [][ApplyNext]_vars

(***************************************************************************)
(* C5: idempotence of apply.  Applying a table to the result of applying   *)
(* it to a judgement gives that result again.                              *)
(***************************************************************************)
C5_ApplyIdempotent ==
    pc = "twice" => applied[2] = applied[1]

C5_Witness ==
    /\ pc = "twice"
    /\ ~IsVariable(left)
    /\ \E name \in DOMAIN table :
          /\ name \in get_variables(left)
          /\ IsVariable(table[name])
          /\ table[name].symbol \in DOMAIN table
          /\ ~IsVariable(table[table[name].symbol])

(***************************************************************************)
(* One table threaded through a sequence of unify_with_substitution calls, *)
(* as get_possible_derivation_paths and the tests' callers do; a call that *)
(* returns Err leaves the bindings it made in the table.                   *)
(***************************************************************************)
MaxCalls == 4

TableLeaves == {Variable(name) : name \in VariableNames}

TableJudgements ==
    TableLeaves
    \cup {constant(<<"f">>)}
    \cup {Operator(<<"g">>, <<t>>) : t \in TableLeaves}
    \cup {Operator(<<"f">>, <<s, t>>) : s \in TableLeaves, t \in TableLeaves}

TableInit ==
    /\ pc = "table"
    /\ left = NoJudgement
    /\ right = NoJudgement
    /\ table = EmptyTable
    /\ unification = NoUnification
    /\ applied = <<NoJudgement, NoJudgement>>
    /\ calls = 0
    /\ ProverIdle

UnifyWithSubstitution ==
    /\ pc = "table"
    /\ calls < MaxCalls
    /\ \E self \in TableJudgements, other \in TableJudgements :
          /\ unification' = unify_with_substitution(self, other, table)
          /\ table' = unification'.substitutions
    /\ calls' = calls + 1
    /\ UNCHANGED <<pc, left, right, applied, prover_vars>>

TableNext == UnifyWithSubstitution

TableSpec == TableInit /\ [][TableNext]_vars

zero == constant(<<"z", "e", "r", "o">>)

succ(n) == Operator(<<"s", "u", "c", "c">>, <<n>>)

empty == constant(<<"e", "m", "p", "t", "y">>)

node(t1, t2) == Operator(<<"n", "o", "d", "e">>, <<t1, t2>>)

nat(n) == Operator(<<"n", "a", "t">>, <<n>>)

tree(t) == Operator(<<"t", "r", "e", "e">>, <<t>>)

sum(n, m, p) == Operator(<<"s", "u", "m">>, <<n, m, p>>)

max(n, m, p) == Operator(<<"m", "a", "x">>, <<n, m, p>>)

hgt(t, n) == Operator(<<"h", "g", "t">>, <<t, n>>)

NatAxioms == <<
    Rule(<<"s", "u", "c", "c">>, <<nat(var(<<"n">>))>>, nat(succ(var(<<"n">>)))),
    taut(<<"z", "e", "r", "o">>, nat(zero)),
    Rule(<<"t", "r", "e", "e">>,
         <<tree(var(<<"a", "1">>)), tree(var(<<"a", "2">>))>>,
         tree(node(var(<<"a", "1">>), var(<<"a", "2">>)))),
    taut(<<"e", "m", "p", "t", "y">>, tree(empty)),
    taut(<<"s", "1">>, sum(var(<<"n">>), zero, var(<<"n">>))),
    Rule(<<"s", "2">>,
         <<sum(var(<<"n">>), var(<<"m">>), var(<<"p">>))>>,
         sum(var(<<"n">>), succ(var(<<"m">>)), succ(var(<<"p">>)))),
    taut(<<"m", "a", "x", "1">>, max(var(<<"n">>), zero, var(<<"n">>))),
    taut(<<"m", "a", "x", "2">>, max(zero, var(<<"n">>), var(<<"n">>))),
    Rule(<<"m", "a", "x", "3">>,
         <<max(var(<<"n">>), var(<<"m">>), var(<<"p">>))>>,
         max(succ(var(<<"n">>)), succ(var(<<"m">>)), succ(var(<<"p">>)))),
    taut(<<"h", "1">>, hgt(empty, zero)),
    Rule(<<"h", "2">>,
         <<hgt(var(<<"t", "1">>), var(<<"n", "1">>)),
           hgt(var(<<"t", "2">>), var(<<"n", "2">>)),
           max(var(<<"n", "1">>), var(<<"n", "2">>), var(<<"n">>))>>,
         hgt(node(var(<<"t", "1">>), var(<<"t", "2">>)), succ(var(<<"n">>))))
>>

NatGoals == {
    nat(zero),
    nat(succ(zero)),
    nat(var(<<"n">>)),
    sum(zero, zero, zero),
    sum(zero, succ(zero), zero),
    sum(succ(zero), succ(succ(zero)), succ(succ(succ(zero)))),
    sum(succ(zero), var(<<"x">>), succ(succ(succ(zero)))),
    max(succ(zero), succ(succ(zero)), succ(succ(zero))),
    hgt(node(empty, empty), succ(zero)),
    hgt(node(empty, node(empty, empty)), succ(succ(zero))),
    hgt(node(empty, node(empty, empty)), succ(zero)),
    hgt(node(empty, node(empty, empty)), var(<<"x">>)),
    hgt(var(<<"x">>), succ(succ(zero))),
    tree(node(empty, empty)),
    tree(var(<<"a", "1">>))
}

\* The Peano numeral of k: succ applied k times to zero.
RECURSIVE Numeral(_)
Numeral(k) ==
    IF k = 0 THEN zero ELSE succ(Numeral(k - 1))

\* Largest numeral in the judgements about sums.
MaxNumeral == 2

\* The axioms s1 and s2 of the test, alone.
SumAxioms == <<NatAxioms[5], NatAxioms[6]>>

\* sum(n, m, p) for numerals n and p and m a numeral or the variable x.
SumGoals ==
    {sum(Numeral(a), m, Numeral(c)) :
        a \in 0..MaxNumeral, c \in 0..MaxNumeral,
        m \in {Numeral(b) : b \in 0..MaxNumeral} \cup {var(<<"x">>)}}

\* The ground trees of height at most k, built from empty and node.
RECURSIVE TreesUpTo(_)
TreesUpTo(k) ==
    IF k = 0 THEN {empty}
    ELSE {empty} \cup {node(t1, t2) : t1 \in TreesUpTo(k - 1), t2 \in TreesUpTo(k - 1)}

\* Height of the tallest tree in the judgements about heights.
MaxTreeHeight == 2

\* hgt(t, h) for a ground tree t and h a numeral or the variable x.
HgtGoals ==
    {hgt(t, h) : t \in TreesUpTo(MaxTreeHeight),
                 h \in {Numeral(b) : b \in 0..MaxNumeral} \cup {var(<<"x">>)}}

\* max_derivation_height of tests::nat_formal_system and of main.
TestHeight == 8

top == constant(<<"t", "o", "p">>)

mid == constant(<<"m", "i", "d">>)

low == constant(<<"l", "o", "w">>)

base == constant(<<"b", "a", "s", "e">>)

LadderAxioms == <<
    Rule(<<"a">>, <<mid>>, top),
    Rule(<<"b">>, <<low>>, top),
    Rule(<<"m">>, <<low>>, mid),
    Rule(<<"l">>, <<base>>, low),
    taut(<<"z">>, base)
>>

LadderGoals == {top, mid, low, base}

\* A system in which the first premise of rule r has two proofs, the first
\* of which (x = a) leaves the second premise without one.
PickAxioms == <<
    Rule(<<"r">>,
         <<Operator(<<"q">>, <<var(<<"x">>)>>), Operator(<<"p">>, <<var(<<"x">>)>>)>>,
         constant(<<"g">>)),
    taut(<<"q", "a">>, Operator(<<"q">>, <<constant(<<"a">>)>>)),
    taut(<<"q", "b">>, Operator(<<"q">>, <<constant(<<"b">>)>>)),
    taut(<<"p", "b">>, Operator(<<"p">>, <<constant(<<"b">>)>>))
>>

PickGoals == {constant(<<"g">>), Operator(<<"q">>, <<var(<<"y">>)>>)}

\* A system whose one rule asks for its own conclusion.
busy == constant(<<"b", "u", "s", "y">>)

LoopAxioms == <<Rule(<<"a", "g", "a", "i", "n">>, <<busy>>, busy)>>

\* Largest max_derivation_height tried.
MaxHeight == 3

Heights == 0..MaxHeight

(***************************************************************************)
(* One verify_recursion call in progress.                                  *)
(*   stage "enter": at line 290;  "loop": in the loops of lines 314-349;   *)
(*   "wait": at the recursive call of line 321.                            *)
(*   path, permutation and premise are the positions of the three loops,   *)
(*   local is the `substitutions` of line 317.                             *)
(***************************************************************************)
Frame(substitutions, judgement, height) ==
    [stage |-> "enter", substitutions |-> substitutions, judgement |-> judgement,
     height |-> height, key |-> <<>>, paths |-> <<>>, path |-> 1,
     permutation |-> 1, premise |-> 1, local |-> EmptyTable,
     premises_proofs |-> <<>>]

Top == stack[Len(stack)]

Popped == SubSeq(stack, 1, Len(stack) - 1)

Running == pc = "search" /\ stack # <<>>

CurrentRule(frame) == frame.paths[frame.path].rule

CurrentPermutation(frame) ==
    permutations(Len(CurrentRule(frame).premises))[frame.permutation]

\* Line 290 with the bound compared wrongly by one.
too_deep_off_by_one(height) ==
    height > max_derivation_height + 1

\* Line 290
too_deep(height) ==
    height > max_derivation_height

\* Largest number of verify calls made on one FormalSystem.
MaxRuns == 2

\* verify keeping the bin of the call before.
surviving_bin == bin

\* Line 241: &mut HashSet::new()
new_bin == {}

\* Line 308 finding no key.
bin_contains_nothing(key) ==
    FALSE

\* Line 308: bin.contains(&normalized_judgement)
bin_contains(key) ==
    key \in bin

VerifyInit ==
    /\ pc = "verify"
    /\ \/ /\ \/ axioms = NatAxioms /\ goal \in NatGoals
             \/ axioms = LadderAxioms /\ goal \in LadderGoals
             \/ axioms = LoopAxioms /\ goal = busy
             \/ axioms = SumAxioms /\ goal \in SumGoals
             \/ axioms = PickAxioms /\ goal \in PickGoals
          /\ max_derivation_height \in Heights
       \/ /\ axioms = NatAxioms
          /\ goal \in HgtGoals
          /\ max_derivation_height = TestHeight
    /\ overflow_checks \in BOOLEAN
    /\ bin = {}
    /\ stack = <<>>
    /\ returned = None
    /\ result = None
    /\ runs = 0
    /\ previous = None
    /\ UnifierIdle
    /\ NamingIdle
    /\ KeyIdle
    /\ PrinterIdle

\* verify, line 241: a new bin, an empty table, height 0.  The call can be
\* repeated on the same FormalSystem with the same judgement.
Verify ==
    /\ pc \in {"verify", "done"}
    /\ runs < MaxRuns
    /\ pc' = "search"
    /\ runs' = runs + 1
    /\ previous' = result
    /\ result' = None
    /\ bin' = new_bin
    /\ stack' = <<Frame(EmptyTable, goal, 0)>>
    /\ UNCHANGED <<system_vars, returned, unifier_vars, function_vars>>

\* Lines 290-292
TooDeep ==
    /\ Running
    /\ Top.stage = "enter"
    /\ too_deep(Top.height)
    /\ stack' = Popped
    /\ returned' = None
    /\ UNCHANGED <<pc, system_vars, bin, result, runs, previous, unifier_vars, function_vars>>

\* Lines 294-310
Pruned ==
    /\ Running
    /\ Top.stage = "enter"
    /\ ~too_deep(Top.height)
    /\ bin_contains(normalized_judgement(Top.judgement, Top.substitutions))
    /\ stack' = Popped
    /\ returned' = None
    /\ UNCHANGED <<pc, system_vars, bin, result, runs, previous, unifier_vars, function_vars>>

\* The call after lines 294-312, in front of its first candidate and
\* permutation (line 317).
\* Line 317 without the clone: the table the call was left with.
substitutions_kept(frame, paths, path) ==
    frame.local

\* Line 317: substitutions.clone(), the table of the candidate at `path`
\* (none is left when path is past the last candidate).
substitutions_clone(frame, paths, path) ==
    IF path <= Len(paths) THEN paths[path].substitutions ELSE EmptyTable

enumerated(frame) ==
    LET paths == get_possible_derivation_paths(frame.substitutions, frame.judgement)
    IN [frame EXCEPT
           !.stage = "loop",
           !.key = normalized_judgement(frame.judgement, frame.substitutions),
           !.paths = paths,
           !.local = substitutions_clone(frame, paths, 1)]

\* Lines 294-312 and the first `let mut substitutions` of line 317.
Enumerate ==
    /\ Running
    /\ Top.stage = "enter"
    /\ ~too_deep(Top.height)
    /\ ~bin_contains(normalized_judgement(Top.judgement, Top.substitutions))
    /\ IF renaming_panics(Top.substitutions, Top.judgement)
       THEN pc' = "panicked" /\ UNCHANGED stack
       ELSE pc' = pc /\ stack' = Append(Popped, enumerated(Top))
    /\ UNCHANGED <<system_vars, bin, returned, result, runs, previous,
                   unifier_vars, function_vars>>

\* u16::MAX, the largest height (line 288).
U16Max == 65535

\* Frames the call stack holds past the u16::MAX + 1 that a search needs
\* to wrap its height.
MaxWrapped == 4

MaxStack == U16Max + 1 + MaxWrapped

HeightPanicked == -1

\* height + 1 of line 321, on u16: u16::MAX + 1 panics in a build with
\* overflow checks and wraps to 0 in a build without.
height_plus_one(height) ==
    IF height < U16Max THEN height + 1
    ELSE IF overflow_checks THEN HeightPanicked
    ELSE 0

\* Line 321: the next premise of the permutation, one level deeper.  A call
\* the stack has no room for never returns.
CallPremise ==
    /\ Running
    /\ Top.stage = "loop"
    /\ Top.path <= Len(Top.paths)
    /\ Top.premise <= Len(CurrentRule(Top).premises)
    /\ IF height_plus_one(Top.height) = HeightPanicked
       THEN pc' = "panicked" /\ UNCHANGED stack
       ELSE IF Len(stack) >= MaxStack
       THEN pc' = "overflow" /\ UNCHANGED stack
       ELSE /\ pc' = pc
            /\ stack' = Append(Popped, [Top EXCEPT !.stage = "wait"])
                  \o <<Frame(Top.local,
                             CurrentRule(Top).premises[CurrentPermutation(Top)[Top.premise]],
                             height_plus_one(Top.height))>>
    /\ UNCHANGED <<system_vars, bin, returned, result, runs, previous,
                   unifier_vars, function_vars>>

\* Lines 322-325
PremiseProved ==
    /\ Running
    /\ Top.stage = "wait"
    /\ returned.some
    /\ stack' = Append(Popped,
                   [Top EXCEPT
                       !.stage = "loop",
                       !.local = extend(Top.local, returned.substitutions),
                       !.premises_proofs = Append(@, returned.proof),
                       !.premise = @ + 1])
    /\ UNCHANGED <<pc, system_vars, bin, returned, result, runs, previous,
                   unifier_vars, function_vars>>

\* Lines 326-335: the permutation is abandoned; the next one, or the first
\* of the next path, starts from that path's table with no proofs.
PremiseFailed ==
    /\ Running
    /\ Top.stage = "wait"
    /\ ~returned.some
    /\ LET last == Top.permutation
                     = Len(permutations(Len(CurrentRule(Top).premises)))
           path == IF last THEN Top.path + 1 ELSE Top.path
       IN stack' = Append(Popped,
                      [Top EXCEPT
                          !.stage = "loop",
                          !.path = path,
                          !.permutation = IF last THEN 1 ELSE @ + 1,
                          !.premise = 1,
                          !.premises_proofs = <<>>,
                          !.local = substitutions_clone(Top, Top.paths, path)])
    /\ UNCHANGED <<pc, system_vars, bin, returned, result, runs, previous,
                   unifier_vars, function_vars>>

\* Lines 339-347: every premise of the permutation was proved.
Succeed ==
    /\ Running
    /\ Top.stage = "loop"
    /\ Top.path <= Len(Top.paths)
    /\ Top.premise > Len(CurrentRule(Top).premises)
    /\ stack' = Popped
    /\ returned' = Some(Derivation(Top.premises_proofs, Top.judgement,
                                   CurrentRule(Top).name),
                        Top.local)
    /\ UNCHANGED <<pc, system_vars, bin, result, runs, previous, unifier_vars, function_vars>>

\* Lines 351-353: no path is left.
Exhausted ==
    /\ Running
    /\ Top.stage = "loop"
    /\ Top.path > Len(Top.paths)
    /\ bin' = bin \cup {Top.key}
    /\ stack' = Popped
    /\ returned' = None
    /\ UNCHANGED <<pc, system_vars, result, runs, previous, unifier_vars, function_vars>>

\* verify, lines 241-242: the outermost call has returned.
Finish ==
    /\ pc = "search"
    /\ stack = <<>>
    /\ pc' = "done"
    /\ result' = IF returned.some
                 THEN Some(derivation_apply_substitution(returned.proof,
                                                         returned.substitutions),
                           EmptyTable)
                 ELSE None
    /\ UNCHANGED <<system_vars, bin, stack, returned, runs, previous,
                   unifier_vars, function_vars>>

(***************************************************************************)
(* The search of verify(busy) on LoopAxioms with the bound u16::MAX, taken *)
(* where its height is within MaxDescent of the bound.  Every call finds   *)
(* the one rule, binds nothing and asks for busy one level deeper; nothing *)
(* fails on the way down, so bin is empty and the calls in progress differ *)
(* by their height only.                                                   *)
(***************************************************************************)
\* The stack after `height` nested calls, all like `waiting` but for their
\* height: the callers wait at line 321, the innermost call is at line 290.
Descended(waiting, height) ==
    [i \in 1..(height + 1) |->
        IF i <= height THEN [waiting EXCEPT !.height = i - 1]
        ELSE Frame(waiting.substitutions, waiting.judgement, height)]

\* The outermost call of verify, once it waits at line 321.
Waiting == [enumerated(Frame(EmptyTable, goal, 0)) EXCEPT !.stage = "wait"]

\* Most calls left to the search before its height is u16::MAX.
MaxDescent == 32

DeepInit ==
    /\ pc = "search"
    /\ axioms = LoopAxioms
    /\ goal = busy
    /\ max_derivation_height = U16Max
    /\ overflow_checks \in BOOLEAN
    /\ bin = {}
    /\ \E waiting \in {Waiting}, height \in (U16Max - MaxDescent)..U16Max :
          stack = Descended(waiting, height)
    /\ returned = None
    /\ result = None
    /\ runs = 1
    /\ previous = None
    /\ UnifierIdle
    /\ NamingIdle
    /\ KeyIdle
    /\ PrinterIdle

\* The descent that DeepInit starts from is the one verify makes: while
\* nothing has failed, the stack of the search on LoopAxioms is Descended.
DescentAsSearched ==
    (/\ axioms = LoopAxioms
     /\ pc = "search"
     /\ bin = {}
     /\ stack # <<>>
     /\ Top.stage = "enter")
        => stack = Descended(Waiting, Top.height)

DeepNext ==
    \/ Enumerate
    \/ CallPremise

DeepSpec == DeepInit /\ [][DeepNext]_vars

Next ==
    \/ Verify
    \/ TooDeep
    \/ Pruned
    \/ Enumerate
    \/ CallPremise
    \/ PremiseProved
    \/ PremiseFailed
    \/ Succeed
    \/ Exhausted
    \/ Finish

Init == VerifyInit

Spec == Init /\ [][Next]_vars

(***************************************************************************)
(* Reference definitions for the claims about verify.                      *)
(***************************************************************************)
NoMatching == [ok |-> FALSE, bindings |-> EmptyTable]

\* One-way matching: extends `matching` so that the pattern, instantiated,
\* equals the target; only variables of the pattern are instantiated.
RECURSIVE Match(_, _, _)
RECURSIVE MatchAll(_, _, _, _)
Match(pattern, target, matching) ==
    IF ~matching.ok THEN NoMatching
    ELSE IF IsVariable(pattern)
    THEN IF pattern.symbol \in DOMAIN matching.bindings
         THEN IF matching.bindings[pattern.symbol] = target THEN matching
              ELSE NoMatching
         ELSE [ok |-> TRUE,
               bindings |-> insert(matching.bindings, pattern.symbol, target)]
    ELSE IF \/ IsVariable(target)
            \/ pattern.symbol # target.symbol
            \/ Len(pattern.subjects) # Len(target.subjects)
    THEN NoMatching
    ELSE MatchAll(pattern.subjects, target.subjects, 1, matching)

MatchAll(patterns, targets, i, matching) ==
    IF i > Len(patterns) THEN matching
    ELSE MatchAll(patterns, targets, i + 1, Match(patterns[i], targets[i], matching))

NoBindings == [ok |-> TRUE, bindings |-> EmptyTable]

\* The node is an instance of the rule: one instantiation of the rule's
\* variables turns its conclusion into the node's conclusion and its
\* premises, in some order, into the conclusions of the node's children.
InstanceOf(rule, derivation) ==
    /\ Len(rule.premises) = Len(derivation.premises)
    /\ \E k \in DOMAIN permutations(Len(rule.premises)) :
          LET permutation == permutations(Len(rule.premises))[k]
              patterns == <<rule.conclusion>>
                          \o [i \in DOMAIN permutation |-> rule.premises[permutation[i]]]
              targets == <<derivation.conclusion>>
                         \o [i \in DOMAIN derivation.premises |->
                                derivation.premises[i].conclusion]
          IN MatchAll(patterns, targets, 1, NoBindings).ok

RECURSIVE WellFormed(_)
WellFormed(derivation) ==
    /\ \E i \in DOMAIN axioms : InstanceOf(axioms[i], derivation)
    /\ \A i \in DOMAIN derivation.premises : WellFormed(derivation.premises[i])

\* Height of the deepest node, the root being at height 0.
RECURSIVE DerivationHeight(_)
DerivationHeight(derivation) ==
    IF derivation.premises = <<>> THEN 0
    ELSE 1 + (CHOOSE h \in {DerivationHeight(derivation.premises[i]) :
                                i \in DOMAIN derivation.premises} :
                \A i \in DOMAIN derivation.premises :
                    DerivationHeight(derivation.premises[i]) <= h)

Ground(j) == get_variables(j) = {}

\* Every variable of a premise occurs in the rule's conclusion, so that
\* matching the conclusion against a ground goal makes the premises ground.
PremisesDetermined ==
    \A i \in DOMAIN axioms :
        \A k \in DOMAIN axioms[i].premises :
            get_variables(axioms[i].premises[k])
                \subseteq get_variables(axioms[i].conclusion)

RECURSIVE Instantiate(_, _)
Instantiate(j, bindings) ==
    IF IsVariable(j)
    THEN IF j.symbol \in DOMAIN bindings THEN bindings[j.symbol] ELSE j
    ELSE Operator(j.symbol,
                  [i \in DOMAIN j.subjects |-> Instantiate(j.subjects[i], bindings)])

\* A derivation of the ground judgement exists whose root sits at `height`
\* and none of whose nodes sits above max_derivation_height.
RECURSIVE Derivable(_, _)
Derivable(judgement, height) ==
    /\ height <= max_derivation_height
    /\ \E i \in DOMAIN axioms :
          LET matching == Match(axioms[i].conclusion, judgement, NoBindings)
          IN /\ matching.ok
             /\ \A k \in DOMAIN axioms[i].premises :
                   Derivable(Instantiate(axioms[i].premises[k], matching.bindings),
                             height + 1)

(***************************************************************************)
(* C8: derivation well-formedness.  In the derivation verify returns every *)
(* node is an instance of some axiom of the system: the axiom's conclusion *)
(* instantiated is the node's conclusion, and its premises instantiated    *)
(* the same way are, in some permutation and one-to-one, the conclusions   *)
(* of the node's children; a leaf is an instance of a zero-premise rule.   *)
(***************************************************************************)
C8_DerivationWellFormed ==
    (pc = "done" /\ result.some) => WellFormed(result.proof)

\* A returned derivation whose root has three children, one of them with
\* children of its own, and whose conclusion instantiates a variable of the
\* goal.
C8_Witness ==
    /\ pc = "done"
    /\ result.some
    /\ Len(result.proof.premises) = 3
    /\ \E i \in DOMAIN result.proof.premises :
          result.proof.premises[i].premises # <<>>
    /\ ~Ground(goal)
    /\ Ground(result.proof.conclusion)

(***************************************************************************)
(* C9: completeness up to the depth bound.  When a derivation of the goal  *)
(* exists none of whose nodes sits above max_derivation_height, verify     *)
(* returns a derivation.  (Stated for ground goals of systems whose        *)
(* premises are determined by their conclusion, where the existence of a   *)
(* derivation is decided by matching.)                                     *)
(***************************************************************************)
C9_CompleteUpToBound ==
    (/\ pc = "done"
     /\ PremisesDetermined
     /\ Ground(goal)
     /\ Derivable(goal, 0))
        => result.some

(***************************************************************************)
(* C10: depth bound.  No call of the search at a height above              *)
(* max_derivation_height gets past the test of the bound, and the          *)
(* derivation verify returns has no node above max_derivation_height; with *)
(* bound 0 it is a single node closed by a zero-premise rule.              *)
(***************************************************************************)
C10_DepthBound ==
    /\ \A i \in DOMAIN stack :
          stack[i].stage # "enter" => stack[i].height <= max_derivation_height
    /\ (pc = "done" /\ result.some) =>
          /\ DerivationHeight(result.proof) <= max_derivation_height
          /\ max_derivation_height = 0 =>
                /\ result.proof.premises = <<>>
                /\ \E i \in DOMAIN axioms :
                      /\ axioms[i].premises = <<>>
                      /\ InstanceOf(axioms[i], result.proof)

\* A search in which a call above the bound failed and which nevertheless
\* returned a derivation whose deepest node sits exactly at the bound.
C10_Witness ==
    /\ pc = "done"
    /\ result.some
    /\ max_derivation_height >= 2
    /\ DerivationHeight(result.proof) = max_derivation_height
    /\ bin # {}

(***************************************************************************)
(* C11: determinism and repeatability.  A second verify call with the same *)
(* judgement on the same FormalSystem returns what the first returned      *)
(* (none both times, or the same derivation: labels, conclusions, order of *)
(* premises), and every verify call starts its search with an empty bin    *)
(* and an empty table.                                                     *)
(***************************************************************************)
C11_VerifyRepeatable ==
    /\ (pc = "done" /\ runs >= 2) => result = previous
    /\ (pc = "search" /\ stack # <<>> /\ stack[1].stage = "enter") =>
          /\ bin = {}
          /\ stack[1].substitutions = EmptyTable

\* A second call has returned the derivation of the first, after a search
\* that left failed subgoals in bin.
C11_Witness ==
    /\ pc = "done"
    /\ runs = 2
    /\ result.some
    /\ previous.some
    /\ result.proof.premises # <<>>
    /\ bin # {}

(***************************************************************************)
(* C12: termination.  For every axiom list, judgement and                  *)
(* max_derivation_height, verify returns (a derivation or none): no search *)
(* is ended by a panic and none recurses without end.                      *)
(***************************************************************************)
C12_VerifyTerminates ==
    /\ pc # "panicked"
    /\ pc # "overflow"

\* The i-th child of every node proves the i-th premise of the rule the
\* node is labelled with: one instantiation of the rule gives the node's
\* conclusion and, position by position, the conclusions of its children.
RECURSIVE ChildrenInPremiseOrder(_)
ChildrenInPremiseOrder(derivation) ==
    /\ \E i \in DOMAIN axioms :
          /\ axioms[i].name = derivation.rule_label
          /\ Len(axioms[i].premises) = Len(derivation.premises)
          /\ MatchAll(<<axioms[i].conclusion>> \o axioms[i].premises,
                      <<derivation.conclusion>>
                      \o [k \in DOMAIN derivation.premises |->
                             derivation.premises[k].conclusion],
                      1, NoBindings).ok
    /\ \A k \in DOMAIN derivation.premises :
          ChildrenInPremiseOrder(derivation.premises[k])

(***************************************************************************)
(* C13: premise order of a derivation.  In the derivation verify returns,  *)
(* the i-th child of a node proves the i-th premise of the rule applied at *)
(* that node, whichever permutation of the premises the search succeeded   *)
(* with.                                                                   *)
(***************************************************************************)
C13_PremiseOrder ==
    (pc = "done" /\ result.some) => ChildrenInPremiseOrder(result.proof)

\* p comes before q in the lexicographic order of positions.
LexLess(p, q) ==
    \E k \in DOMAIN p :
        /\ p[k] < q[k]
        /\ \A j \in 1..(k - 1) : p[j] = q[j]

PermutationsOf(len) ==
    {p \in [1..len -> 1..len] : \A a, b \in 1..len : a # b => p[a] # p[b]}

\* Position in declaration order of the axiom a candidate was renamed from.
Declared(candidate_rule) ==
    CHOOSE i \in DOMAIN axioms : axioms[i].name = candidate_rule.name

\* The candidates of a call are the unifying axioms in declaration order,
\* and the permutation the call is at has as many permutations before it
\* in lexicographic order as the call has left behind.
TriedInOrder(frame) ==
    /\ \A k \in DOMAIN frame.paths :
          /\ \E i \in DOMAIN axioms : axioms[i].name = frame.paths[k].rule.name
          /\ \A j \in 1..(k - 1) :
                Declared(frame.paths[j].rule) < Declared(frame.paths[k].rule)
    /\ \A i \in DOMAIN axioms :
          (\A k \in DOMAIN frame.paths : Declared(frame.paths[k].rule) # i)
             => unify_with_substitution(
                    frame.judgement,
                    rename_rule(axioms[i], NoState,
                        FreshClosure(forbidden_variables(frame.substitutions,
                                                         frame.judgement))).conclusion,
                    frame.substitutions).status # "Ok"
    /\ frame.path <= Len(frame.paths) =>
          LET tried == CurrentPermutation(frame)
          IN /\ tried \in PermutationsOf(Len(CurrentRule(frame).premises))
             /\ Cardinality({p \in PermutationsOf(Len(tried)) : LexLess(p, tried)})
                   = frame.permutation - 1

\* The (candidate, permutation) pair a call is at.
Pair(frame) == <<frame.path, frame.permutation>>

\* The pair tried after the pair of the frame.
PairAfter(frame) ==
    IF frame.permutation
         < Cardinality(PermutationsOf(Len(CurrentRule(frame).premises)))
    THEN <<frame.path, frame.permutation + 1>>
    ELSE <<frame.path + 1, 1>>

(***************************************************************************)
(* C14: tie-break policy.  Every call tries the unifying axioms in         *)
(* declaration order and, for each, the permutations of its premises in    *)
(* lexicographic order of positions, starting with the first axiom and the *)
(* identity; it leaves a pair only for the next pair, and only when a      *)
(* premise of the pair has failed; and the derivation it returns is that   *)
(* of the pair it is at, all of whose premises are proved.                 *)
(***************************************************************************)
C14_TieBreak ==
    [][/\ \A i \in DOMAIN stack :
            /\ stack[i].stage = "enter" => Pair(stack[i]) = <<1, 1>>
            /\ stack[i].stage # "enter" => TriedInOrder(stack[i])
       /\ \A i \in DOMAIN stack \cap DOMAIN stack' :
            Pair(stack'[i]) # Pair(stack[i]) =>
               /\ i = Len(stack)
               /\ stack[i].stage = "wait"
               /\ ~returned.some
               /\ Pair(stack'[i]) = PairAfter(stack[i])
       /\ (Len(stack') < Len(stack) /\ returned'.some) =>
            /\ Top.stage = "loop"
            /\ Top.path <= Len(Top.paths)
            /\ Len(Top.premises_proofs) = Len(CurrentRule(Top).premises)
            /\ returned'.proof.rule_label = CurrentRule(Top).name
            /\ returned'.proof.premises = Top.premises_proofs
            /\ \A k \in DOMAIN Top.premises_proofs :
                  Top.premises_proofs[k].conclusion
                     = CurrentRule(Top).premises[CurrentPermutation(Top)[k]]
      ]_vars

\* A call about to return the derivation of a pair that is not its first:
\* the identity permutation failed and a later permutation is proved.
C14_Witness ==
    /\ pc = "search"
    /\ stack # <<>>
    /\ Top.stage = "loop"
    /\ Top.path <= Len(Top.paths)
    /\ Top.permutation >= 2
    /\ Len(CurrentRule(Top).premises) >= 2
    /\ Top.premise > Len(CurrentRule(Top).premises)

(***************************************************************************)
(* C15: addition.  With the axioms s1 and s2, numerals n and p and a bound *)
(* at least the size of the second argument, verify(sum(n, m, p)) for a    *)
(* numeral m returns a derivation iff n + m = p, and verify(sum(n, x, p))  *)
(* returns one iff n <= p; the root of the derivation concludes            *)
(* sum(n, k, p) with n + k = p (x is bound to p - n).                      *)
(***************************************************************************)
C15_Addition ==
    (pc = "done" /\ \E i, j \in DOMAIN axioms : <<axioms[i], axioms[j]>> = SumAxioms) =>
        \A a, c \in 0..MaxNumeral :
            /\ \A b \in 0..MaxNumeral :
                  (/\ goal = sum(Numeral(a), Numeral(b), Numeral(c))
                   /\ max_derivation_height >= b)
                     => /\ result.some <=> a + b = c
                        /\ result.some => result.proof.conclusion = goal
            /\ (/\ goal = sum(Numeral(a), var(<<"x">>), Numeral(c))
                /\ max_derivation_height >= c)
                  => /\ result.some <=> a <= c
                     /\ result.some =>
                           result.proof.conclusion
                              = sum(Numeral(a), Numeral(c - a), Numeral(c))

\* verify(sum(succ(zero), x, succ(succ(succ(zero))))) of the test, one
\* numeral down: x is bound to MaxNumeral - 1 by MaxNumeral - 1 uses of s2.
C15_Witness ==
    /\ pc = "done"
    /\ axioms = SumAxioms
    /\ goal = sum(Numeral(1), var(<<"x">>), Numeral(MaxNumeral))
    /\ result.some
    /\ result.proof.conclusion
          = sum(Numeral(1), Numeral(MaxNumeral - 1), Numeral(MaxNumeral))
    /\ result.proof.rule_label = <<"s", "2">>

\* Height of a ground tree: empty = 0, node = 1 + max of its children.
RECURSIVE TreeHeight(_)
TreeHeight(t) ==
    IF t = empty THEN 0
    ELSE LET h1 == TreeHeight(t.subjects[1])
             h2 == TreeHeight(t.subjects[2])
         IN 1 + (IF h1 >= h2 THEN h1 ELSE h2)

(***************************************************************************)
(* C16: tree height.  With the axioms of the test and the bound 8, for a   *)
(* ground tree t, verify(hgt(t, x)) returns a derivation and               *)
(* verify(hgt(t, h)) for a numeral h returns one iff h is the height of t; *)
(* the root of the derivation concludes hgt(t, height(t)).                 *)
(***************************************************************************)
C16_TreeHeight ==
    (pc = "done" /\ axioms = NatAxioms /\ max_derivation_height = TestHeight) =>
        \A t \in TreesUpTo(MaxTreeHeight) :
            /\ goal = hgt(t, var(<<"x">>)) => result.some
            /\ \A b \in 0..MaxNumeral :
                  goal = hgt(t, Numeral(b)) => (result.some <=> b = TreeHeight(t))
            /\ (goal.subjects[1] = t /\ result.some) =>
                  result.proof.conclusion = hgt(t, Numeral(TreeHeight(t)))

\* The variables of a rule, conclusion and premises.
RuleVariables(rule) ==
    get_variables(rule.conclusion)
    \cup UNION {get_variables(rule.premises[k]) : k \in DOMAIN rule.premises}

(***************************************************************************)
(* C17: fresh names avoid the forbidden set.  In every search call, no     *)
(* variable of a renamed axiom (of a candidate kept by the call, and of an *)
(* axiom renamed and then dropped because it does not unify) is a variable *)
(* of the call's goal, a key of the call's table, or a variable of a term  *)
(* of that table.                                                          *)
(***************************************************************************)
C17_FreshNamesAvoidForbidden ==
    \A i \in DOMAIN stack :
        stack[i].stage # "enter" =>
            LET forbidden == get_variables(stack[i].judgement)
                             \cup DOMAIN stack[i].substitutions
                             \cup UNION {get_variables(stack[i].substitutions[key]) :
                                            key \in DOMAIN stack[i].substitutions}
            IN /\ \A k \in DOMAIN stack[i].paths :
                     RuleVariables(stack[i].paths[k].rule) \cap forbidden = {}
               /\ \A a \in DOMAIN axioms :
                     RuleVariables(rename_rule(axioms[a], NoState, FreshClosure(forbidden)))
                        \cap forbidden = {}

\* A call one of whose candidates needed three steps of next_name for a
\* variable: n, n1 and n2 were forbidden, the rule has n3.
C17_Witness ==
    /\ pc = "search"
    /\ stack # <<>>
    /\ Top.stage = "loop"
    /\ {<<"n">>, <<"n", "1">>, <<"n", "2">>}
          \subseteq forbidden_variables(Top.substitutions, Top.judgement)
    /\ \E k \in DOMAIN Top.paths :
          <<"n", "3">> \in RuleVariables(Top.paths[k].rule)

\* The key of the innermost call: its goal under its table, variables
\* renamed x1, x2, ... in order of appearance, printed.
TopKey ==
    to_string(rename_variables(apply_substitution(Top.judgement, Top.substitutions),
                               NoState, CanonicalClosure).judgement)

(***************************************************************************)
(* C18: subgoal pruning protocol.  Within one verify call bin only grows;  *)
(* a call within the depth bound whose key is in bin returns none at once, *)
(* trying no axiom; bin changes only by the key of a call that has left    *)
(* its last candidate and permutation behind and returns none; a call      *)
(* that returns a derivation and a call rejected by the depth check leave  *)
(* bin as it is.                                                           *)
(***************************************************************************)
C18_PruningProtocol ==
    [][(pc = "search" /\ stack # <<>>) =>
          /\ bin \subseteq bin'
          /\ (/\ Top.stage = "enter"
              /\ Top.height <= max_derivation_height
              /\ TopKey \in bin)
                => /\ stack' = Popped
                   /\ ~returned'.some
                   /\ bin' = bin
          /\ bin' # bin =>
                /\ Top.stage = "loop"
                /\ Top.path > Len(Top.paths)
                /\ Top.key = TopKey
                /\ bin' = bin \cup {TopKey}
                /\ stack' = Popped
                /\ ~returned'.some
          /\ (Len(stack') < Len(stack) /\ returned'.some) => bin' = bin
          /\ (Top.stage = "enter" /\ Top.height > max_derivation_height) =>
                /\ bin' = bin
                /\ stack' = Popped
                /\ ~returned'.some
      ]_vars

\* A call within the bound whose key an earlier call has put in bin.
C18_Witness ==
    /\ pc = "search"
    /\ stack # <<>>
    /\ Top.stage = "enter"
    /\ Top.height <= max_derivation_height
    /\ Top.height >= 1
    /\ TopKey \in bin
    /\ Cardinality(bin) >= 2

\* `substitutions` with the entries of `other` written over it.
Overwritten(substitutions, other) ==
    [key \in DOMAIN substitutions \cup DOMAIN other |->
        IF key \in DOMAIN other THEN other[key] ELSE substitutions[key]]

(***************************************************************************)
(* C19: substitution threading.  No step of a search call changes a call   *)
(* below it on the stack, nor the table a call was given; the table of a   *)
(* candidate is what unifying the goal with that candidate's conclusion    *)
(* makes of the table the call was given, whatever the other axioms bound; *)
(* a permutation starts, with no proof, from the table of its candidate;   *)
(* the table grows only by what a proved premise returns, and the table    *)
(* returned is that of the permutation that succeeded.                     *)
(***************************************************************************)
C19_SubstitutionThreading ==
    [][(pc = "search" /\ stack # <<>>) =>
          /\ \A i \in DOMAIN stack \cap DOMAIN stack' :
                /\ i < Len(stack) => stack'[i] = stack[i]
                /\ stack'[i].substitutions = stack[i].substitutions
                /\ stack'[i].local # stack[i].local =>
                      \/ stack[i].stage = "enter"
                      \/ /\ stack[i].stage = "wait"
                         /\ returned.some
                         /\ stack'[i].local
                               = Overwritten(stack[i].local, returned.substitutions)
                      \/ /\ stack[i].stage = "wait"
                         /\ ~returned.some
          /\ \A i \in DOMAIN stack :
                stack[i].stage # "enter" =>
                   /\ \A k \in DOMAIN stack[i].paths :
                         LET unified == unify_with_substitution(
                                            stack[i].judgement,
                                            stack[i].paths[k].rule.conclusion,
                                            stack[i].substitutions)
                         IN /\ unified.status = "Ok"
                            /\ stack[i].paths[k].substitutions = unified.substitutions
                   /\ (stack[i].premise = 1 /\ stack[i].path <= Len(stack[i].paths)) =>
                         /\ stack[i].local = stack[i].paths[stack[i].path].substitutions
                         /\ stack[i].premises_proofs = <<>>
          /\ (Len(stack') < Len(stack) /\ returned'.some) =>
                returned'.substitutions = Top.local
      ]_vars

\* A call about to abandon a permutation after one of its premises was
\* proved and had added bindings to the table.
C19_Witness ==
    /\ pc = "search"
    /\ stack # <<>>
    /\ Top.stage = "wait"
    /\ ~returned.some
    /\ Top.premises_proofs # <<>>
    /\ Top.local # Top.paths[Top.path].substitutions

(***************************************************************************)
(* The renaming closure of lines 260-266 on its own: new_symbol starts as  *)
(* the symbol of the axiom and is replaced by next_name(new_symbol) while  *)
(* it is in variables.                                                     *)
(*   Names: no digit; digits at the end, with and without leading zeros;   *)
(*   a 9 that carries; digits followed by a letter; digits only; u32::MAX  *)
(*   less one, u32::MAX (also behind a zero) and u32::MAX plus one.        *)
(***************************************************************************)
Names == {
    <<"x">>,
    <<"x", "0">>,
    <<"x", "1">>,
    <<"x", "9">>,
    <<"x", "0", "9">>,
    <<"x", "0", "0", "7">>,
    <<"x", "1", "y">>,
    <<"7">>,
    <<"x">> \o SubSeq(U32MaxDigits, 1, 9) \o <<"4">>,
    <<"x">> \o U32MaxDigits,
    <<"x", "0">> \o U32MaxDigits,
    <<"x">> \o SubSeq(U32MaxDigits, 1, 9) \o <<"6">>
}

\* Names that variables can hold besides the symbol itself.
TakenNames == {
    <<"x", "1">>,
    <<"x", "2">>,
    <<"x", "8">>,
    <<"x", "1", "0">>,
    <<"x", "1", "y", "1">>,
    <<"x">> \o U32MaxDigits
}

NameInit ==
    /\ pc = "rename"
    /\ candidate \in Names
    /\ \E others \in SUBSET TakenNames : taken = {candidate} \cup others
    /\ overflow_checks \in BOOLEAN
    /\ axioms = <<>>
    /\ max_derivation_height = 0
    /\ goal = NoJudgement
    /\ bin = {}
    /\ stack = <<>>
    /\ returned = None
    /\ result = None
    /\ runs = 0
    /\ previous = None
    /\ UnifierIdle
    /\ KeyIdle
    /\ PrinterIdle

\* Lines 262-264: one turn of the loop.
NextName ==
    /\ pc = "rename"
    /\ candidate \in taken
    /\ IF next_name(candidate) = Panicked
       THEN pc' = "panicked" /\ UNCHANGED candidate
       ELSE pc' = pc /\ candidate' = next_name(candidate)
    /\ UNCHANGED <<taken, system_vars, bin, stack, returned, result, runs, previous,
                   unifier_vars, key_vars, printer_vars>>

\* Line 265: the closure returns new_symbol.
Renamed ==
    /\ pc = "rename"
    /\ candidate \notin taken
    /\ pc' = "renamed"
    /\ UNCHANGED <<candidate, taken, system_vars, bin, stack, returned, result, runs,
                   previous, unifier_vars, key_vars, printer_vars>>

NameNext ==
    \/ NextName
    \/ Renamed

NameSpec == NameInit /\ [][NameNext]_vars

(***************************************************************************)
(* C20: fresh-naming progress.  For every name n, next_name(n) returns a   *)
(* name other than n (the suffix u32::MAX, suffixes with leading zeros and *)
(* digits followed by non-digits included: k + 1 neither overflows nor     *)
(* aborts), so the renaming loop is not ended by a panic.                  *)
(***************************************************************************)
C20_NextNameProgress ==
    /\ pc # "panicked"
    /\ pc = "rename" =>
          /\ next_name(candidate) # Panicked
          /\ next_name(candidate) # candidate

(***************************************************************************)
(* The key of lines 294-306 on its own: two subgoals, each a judgement     *)
(* with a table, and the two strings that bin would hold for them.         *)
(*   Variables are u, v and x1 (the first canonical placeholder); the      *)
(*   zero-subject operators are a, b, x1 and one whose predicate holds     *)
(*   the characters Display writes between subjects: Operator.predicate    *)
(*   is a String, and Judgement::operator and op! take any.                *)
(***************************************************************************)
KeyVariables == {Variable(<<"u">>), Variable(<<"v">>), Variable(<<"x", "1">>)}

Punctuated == Operator(<<"a", "(", ")", ",", " ", "b">>, <<>>)

KeyConstants ==
    {Operator(<<"a">>, <<>>), Operator(<<"b">>, <<>>), Operator(<<"x", "1">>, <<>>),
     Punctuated}

KeyAtoms == KeyVariables \cup KeyConstants

KeyGoals ==
    KeyAtoms
    \cup {Operator(<<"f">>, <<s>>) : s \in KeyAtoms}
    \cup {Operator(<<"f">>, <<s, t>>) : s \in KeyAtoms, t \in KeyAtoms}

KeyTables ==
    {EmptyTable,
     [name \in {<<"u">>} |-> Operator(<<"a">>, <<>>)],
     [name \in {<<"u">>} |-> Variable(<<"v">>)]}

Subgoal(judgement, substitutions) ==
    [judgement |-> judgement, substitutions |-> substitutions]

KeyInit ==
    /\ pc = "key"
    /\ \E g1 \in KeyGoals, g2 \in KeyGoals, s1 \in KeyTables, s2 \in KeyTables :
          subgoals = <<Subgoal(g1, s1), Subgoal(g2, s2)>>
    /\ keys = <<>>
    /\ ProverVarsIdle
    /\ NamingIdle
    /\ PrinterIdle
    /\ UnifierIdle

\* Lines 294-306 for the next subgoal.
Normalize ==
    /\ pc = "key"
    /\ LET subgoal == subgoals[Len(keys) + 1]
       IN keys' = Append(keys, normalized_judgement(subgoal.judgement,
                                                     subgoal.substitutions))
    /\ pc' = IF Len(keys') = Len(subgoals) THEN "keyed" ELSE "key"
    /\ UNCHANGED <<subgoals, system_vars, bin, stack, returned, result, runs, previous,
                   unifier_vars, naming_vars, printer_vars>>

KeyNext == Normalize

KeySpec == KeyInit /\ [][KeyNext]_vars

(***************************************************************************)
(* C21: subgoal key fidelity.  For all goals g1, g2 and tables s1, s2 the  *)
(* keys of (g1, s1) and (g2, s2) are equal if and only if g1 under s1 and  *)
(* g2 under s2 differ only by a one-to-one renaming of variables; a        *)
(* variable and a zero-subject operator of one name never give one key.    *)
(***************************************************************************)
RECURSIVE RenamedBy(_, _)
\* j with every variable n replaced by the variable rho[n].
RenamedBy(j, rho) ==
    IF IsVariable(j) THEN Variable(rho[j.symbol])
    ELSE Operator(j.symbol, [i \in DOMAIN j.subjects |-> RenamedBy(j.subjects[i], rho)])

AlphaVariant(a, b) ==
    \E rho \in [get_variables(a) -> get_variables(b)] :
        /\ \A n \in DOMAIN rho, m \in DOMAIN rho : rho[n] = rho[m] => n = m
        /\ RenamedBy(a, rho) = b

Instance(subgoal) == apply_substitution(subgoal.judgement, subgoal.substitutions)

RECURSIVE Predicates(_)
Predicates(j) ==
    IF IsVariable(j) THEN {}
    ELSE {j.symbol} \cup UNION {Predicates(j.subjects[i]) : i \in DOMAIN j.subjects}

\* No predicate of j holds a character that Display writes itself.
PlainPredicates(j) ==
    \A predicate \in Predicates(j) :
        \A i \in DOMAIN predicate : predicate[i] \notin {"(", ")", ",", " "}

C21_KeyFidelity ==
    pc = "keyed" =>
        (keys[1] = keys[2] <=> AlphaVariant(Instance(subgoals[1]), Instance(subgoals[2])))

\* The same for goals whose predicates are free of Display's punctuation.
KeyFidelityOfPlainPredicates ==
    (/\ pc = "keyed"
     /\ PlainPredicates(subgoals[1].judgement)
     /\ PlainPredicates(subgoals[2].judgement))
        => (keys[1] = keys[2]
               <=> AlphaVariant(Instance(subgoals[1]), Instance(subgoals[2])))

\* A variable and a zero-subject operator of one name have different keys.
VariableAndConstantDiffer ==
    (/\ pc = "keyed"
     /\ IsVariable(Instance(subgoals[1]))
     /\ ~IsVariable(Instance(subgoals[2]))
     /\ Instance(subgoals[2]).subjects = <<>>)
        => keys[1] # keys[2]

(***************************************************************************)
(* Derivation::pretty_print.  A String is a sequence of characters; its    *)
(* len() is the number of bytes of its UTF-8 encoding, while the width of  *)
(* format!("{: ^width$}") counts characters.  RightArrow stands for the    *)
(* one character U+2192, three bytes long; every other character used is   *)
(* ASCII.                                                                  *)
(***************************************************************************)
RightArrow == "U+2192"

len_utf8(character) == IF character = RightArrow THEN 3 ELSE 1

\* String::len
RECURSIVE len(_)
len(string) ==
    IF string = <<>> THEN 0 ELSE len_utf8(Head(string)) + len(Tail(string))

\* " ".repeat(n) and "-".repeat(n)
repeat(character, n) == [i \in 1..n |-> character]

\* std::cmp::max
cmp_max(a, b) == IF a >= b THEN a ELSE b

\* format!("{: ^width$}", string): nothing is added to a string that has
\* width characters or more; otherwise the padding is split, the odd space
\* going to the right.
center(string, width) ==
    IF Len(string) >= width THEN string
    ELSE LET padding == width - Len(string)
         IN repeat(" ", padding \div 2) \o string \o repeat(" ", (padding + 1) \div 2)

\* Line 202 without the padding: a block that has no line i gives nothing.
premise_line_unpadded(premise_tree, i) ==
    IF i <= Len(premise_tree) THEN premise_tree[i] ELSE <<>>

\* Lines 199-203: line i of a block, or spaces as long as its first line.
premise_line(premise_tree, i) ==
    IF i <= Len(premise_tree) THEN premise_tree[i]
    ELSE repeat(" ", len(premise_tree[1]))

RECURSIVE concat(_, _)
\* The strings pushed on one line, from the one at position i on.
concat(strings, i) ==
    IF i > Len(strings) THEN <<>> ELSE strings[i] \o concat(strings, i + 1)

RECURSIVE sum_from(_, _)
sum_from(numbers, i) ==
    IF i > Len(numbers) THEN 0 ELSE numbers[i] + sum_from(numbers, i + 1)

RECURSIVE pretty_print(_)

\* Lines 159-167: the block of a premise, every line followed by two
\* spaces unless the premise is the last.
premise_tree_of(premise, last) ==
    LET block == pretty_print(premise)
    IN IF ~last THEN [k \in DOMAIN block |-> block[k] \o <<" ", " ">>] ELSE block

\* Lines 153-175
premises_results(self) ==
    [i \in DOMAIN self.premises |->
        premise_tree_of(self.premises[i], i = Len(self.premises))]

premises_width(self) ==
    LET results == premises_results(self)
    IN sum_from([i \in DOMAIN results |-> len(results[i][1])], 1)

max_premise_height(self) ==
    LET results == premises_results(self)
        heights == {Len(results[i]) : i \in DOMAIN results}
    IN IF heights = {} THEN 0
       ELSE CHOOSE h \in heights : \A k \in heights : k <= h

conclusion_width(self) == len(to_string(self.conclusion))

\* Line 151
padded_width(self) == conclusion_width(self) + len(self.rule_label)

\* Line 177: max_width before it is shadowed at line 179.
max_width_of_contents(self) == cmp_max(premises_width(self), padded_width(self))

\* Line 178
bar_width(self) == cmp_max(max_width_of_contents(self), conclusion_width(self) + 2)

\* Line 179
max_width(self) ==
    cmp_max(max_width_of_contents(self), bar_width(self) + len(self.rule_label))

pretty_print(self) ==
    LET results == premises_results(self)
        rule_label == self.rule_label
        width == max_width(self) - len(rule_label)
        conclusion_line ==
            repeat(" ", len(rule_label)) \o center(to_string(self.conclusion), width)
        bar_line == rule_label \o center(repeat("-", bar_width(self)), width)
        merged(i) ==
            center(concat([k \in DOMAIN results |-> premise_line(results[k], i)], 1),
                   max_width(self))
    IN <<conclusion_line, bar_line>>
       \o [i \in 1..max_premise_height(self) |-> merged(i)]

(***************************************************************************)
(* pretty_print on its own.  Labels: none, one letter, the label succ of   *)
(* the tests, and a label with the arrow.  Conclusions: a variable, a      *)
(* constant and an operator of two subjects, so that the conclusion is     *)
(* narrower and wider than the premises.  Derivations: leaves, one leaf    *)
(* above a node, and two blocks side by side, of equal and of different    *)
(* heights.                                                                *)
(***************************************************************************)
PrintLabels == {<<>>, <<"z">>, <<"s", "u", "c", "c">>, <<RightArrow, "E">>}

PrintConclusions ==
    {Variable(<<"x">>),
     Operator(<<"a">>, <<>>),
     Operator(<<"s", "u", "m">>, <<Variable(<<"n">>), Operator(<<"z">>, <<>>)>>)}

PrintLeaves ==
    {Derivation(<<>>, conclusion, rule_label) :
        conclusion \in PrintConclusions, rule_label \in PrintLabels}

PrintChains ==
    {Derivation(<<premise>>, conclusion, rule_label) :
        premise \in PrintLeaves, conclusion \in PrintConclusions,
        rule_label \in PrintLabels}

\* The blocks put side by side: leaves of two widths, with and without the
\* arrow, and two nodes that are two lines higher.
PrintBlocks ==
    {Derivation(<<>>, Variable(<<"x">>), <<>>),
     Derivation(<<>>, Operator(<<"a">>, <<>>), <<"z">>),
     Derivation(<<>>, Operator(<<"a">>, <<>>), <<RightArrow, "E">>),
     Derivation(<<Derivation(<<>>, Operator(<<"a">>, <<>>), <<"z">>)>>,
                Variable(<<"x">>), <<"s", "u", "c", "c">>),
     Derivation(<<Derivation(<<>>, Variable(<<"x">>), <<>>)>>,
                Operator(<<"a">>, <<>>), <<>>)}

PrintPairs ==
    {Derivation(<<first, second>>, conclusion, rule_label) :
        first \in PrintBlocks, second \in PrintBlocks,
        conclusion \in PrintConclusions, rule_label \in PrintLabels}

PrintTriples ==
    {Derivation(<<first, second, first>>, Operator(<<"a">>, <<>>), rule_label) :
        first \in PrintBlocks, second \in PrintBlocks, rule_label \in PrintLabels}

PrintInit ==
    /\ pc = "print"
    /\ printed \in PrintLeaves \cup PrintChains \cup PrintPairs \cup PrintTriples
    /\ lines = <<>>
    /\ ProverVarsIdle
    /\ NamingIdle
    /\ KeyIdle
    /\ UnifierIdle

PrettyPrint ==
    /\ pc = "print"
    /\ lines' = pretty_print(printed)
    /\ pc' = "printed"
    /\ UNCHANGED <<printed, system_vars, bin, stack, returned, result, runs, previous,
                   unifier_vars, naming_vars, key_vars>>

PrintNext == PrettyPrint

PrintSpec == PrintInit /\ [][PrintNext]_vars

RECURSIVE Nodes(_)
\* The derivation and every derivation above it.
Nodes(step) ==
    {step} \cup UNION {Nodes(step.premises[i]) : i \in DOMAIN step.premises}

\* The block of a node: the returned lines for the derivation printed, and
\* for a node above it the lines its own call returns.
Block(step) == IF step = printed THEN lines ELSE pretty_print(step)

Largest(numbers) == CHOOSE n \in numbers : \A k \in numbers : k <= n

Smallest(numbers) == CHOOSE n \in numbers : \A k \in numbers : n <= k

\* The columns of a line that hold a hyphen, and those that hold no space.
BarColumns(line) == {i \in DOMAIN line : line[i] = "-"}

TextColumns(line) == {i \in DOMAIN line : line[i] # " "}

BarGeometry(step) ==
    LET block == Block(step)
        label_width == len(step.rule_label)
        text_width == len(to_string(step.conclusion))
        widest == Largest({premises_width(step), text_width + label_width,
                           text_width + 2})
    IN /\ bar_width(step) = widest
       /\ max_width(step) = widest + label_width
       /\ block[2] = step.rule_label \o repeat("-", widest)
       /\ Smallest(BarColumns(block[2])) + 1 <= Smallest(TextColumns(block[1]))
       /\ Largest(TextColumns(block[1])) + 1 <= Largest(BarColumns(block[2]))

(***************************************************************************)
(* C22: bar geometry.  For every derivation node, bar_width is the largest *)
(* of premises_width, conclusion_width + |rule_label| and conclusion_width *)
(* + 2, the final max_width is bar_width + |rule_label|, the bar line is   *)
(* the rule label immediately followed by the hyphens, and in the block    *)
(* the bar starts at least one column left of the conclusion text and ends *)
(* at least one column right of it.                                        *)
(***************************************************************************)
C22_BarGeometry ==
    pc = "printed" => \A step \in Nodes(printed) : BarGeometry(step)

Ascii(string) == \A i \in DOMAIN string : string[i] # RightArrow

AsciiDerivation(self) ==
    \A step \in Nodes(self) :
        Ascii(step.rule_label) /\ Ascii(to_string(step.conclusion))

\* The same for derivations whose labels and terms are ASCII.
BarGeometryOfAscii ==
    (pc = "printed" /\ AsciiDerivation(printed))
        => \A step \in Nodes(printed) : BarGeometry(step)

Rectangular(step) ==
    LET block == Block(step)
        blocks == [k \in DOMAIN step.premises |-> Block(step.premises[k])]
        tallest == Largest({Len(blocks[k]) : k \in DOMAIN blocks} \cup {0})
        segment(k, i) ==
            (IF i <= Len(blocks[k]) THEN blocks[k][i]
             ELSE repeat(" ", Len(blocks[k][1])))
            \o (IF k < Len(blocks) THEN <<" ", " ">> ELSE <<>>)
    IN /\ \A i \in DOMAIN block : Len(block[i]) = max_width(step)
       /\ Len(block) = 2 + tallest
       /\ \A i \in 1..tallest :
             block[2 + i]
                = center(concat([k \in DOMAIN blocks |-> segment(k, i)], 1),
                         max_width(step))

(***************************************************************************)
(* C26: rectangular blocks.  For every derivation with ASCII labels and    *)
(* terms, all lines returned by pretty_print have the width max_width of   *)
(* the node, the block has 2 lines more than the highest premise block (2  *)
(* for a leaf), and in each merged line every premise block takes the      *)
(* width of its own first line, with two spaces after every block but the  *)
(* last.                                                                   *)
(***************************************************************************)
C26_RectangularBlocks ==
    (pc = "printed" /\ AsciiDerivation(printed))
        => \A step \in Nodes(printed) : Rectangular(step)

\* Two blocks side by side, the first lower than the second: its missing
\* line is made of spaces and followed by the separator.
C26_Witness ==
    /\ pc = "printed"
    /\ AsciiDerivation(printed)
    /\ Len(printed.premises) = 2
    /\ Len(pretty_print(printed.premises[1])) < Len(pretty_print(printed.premises[2]))
    /\ Len(lines) = 2 + Len(pretty_print(printed.premises[2]))

(***************************************************************************)
(* C23: renaming is a true alpha-renaming.  At every axiom attempt the map *)
(* from the variables of the axiom to the variables of the renamed rule is *)
(* injective: two distinct variables of one axiom (a1 and a2; n, n1 and    *)
(* n2) never get the same fresh name, so the renamed rule has as many      *)
(* variables as the axiom and is a variant of it, not a proper instance.   *)
(***************************************************************************)
RenamedAxiom(frame, a) ==
    rename_rule(axioms[a], NoState,
                FreshClosure(forbidden_variables(frame.substitutions, frame.judgement)))

C23_RenamingInjective ==
    \A i \in DOMAIN stack :
        stack[i].stage # "enter" =>
            \A a \in DOMAIN axioms :
                Cardinality(RuleVariables(RenamedAxiom(stack[i], a)))
                    = Cardinality(RuleVariables(axioms[a]))

\* The premises of the rule instance a waiting call is working on that come
\* after the one being proved, in the order of the permutation tried.
PendingPremises(frame) ==
    LET rule == CurrentRule(frame)
        order == CurrentPermutation(frame)
    IN {rule.premises[order[k]] : k \in (frame.premise + 1)..Len(order)}

PendingVariables(frame) ==
    UNION {get_variables(premise) : premise \in PendingPremises(frame)}

(***************************************************************************)
(* C24: no variable capture between rule instances.  While the search      *)
(* proves one premise of a renamed rule, no rule instance created inside   *)
(* that sub-search uses a variable name that occurs in a not yet proved    *)
(* sibling premise of that rule, or of any enclosing rule instance.        *)
(***************************************************************************)
C24_NoVariableCapture ==
    \A outer \in DOMAIN stack, inner \in DOMAIN stack :
        (/\ outer < inner
         /\ stack[outer].stage = "wait"
         /\ stack[inner].stage # "enter")
            => \A k \in DOMAIN stack[inner].paths :
                  RuleVariables(stack[inner].paths[k].rule)
                     \cap PendingVariables(stack[outer]) = {}

\* The goal of the innermost call under its table.
TopGoal == apply_substitution(Top.judgement, Top.substitutions)

\* The innermost call has passed the test of the bound and is about to
\* find its key in bin (lines 308-310).
MeetsBin ==
    /\ Running
    /\ Top.stage = "enter"
    /\ ~too_deep(Top.height)
    /\ normalized_judgement(Top.judgement, Top.substitutions) \in bin

(***************************************************************************)
(* C25: bin holds only unprovable goals.  Every key in bin is the          *)
(* normalised form of a goal that has no derivation within the depth bound *)
(* at any height at which the search later meets it: a goal whose search   *)
(* failed only because its premises exceeded the bound at a deep position  *)
(* is not pruned at a shallower position where a derivation fits.  (Stated *)
(* for ground goals of systems whose premises are determined by their      *)
(* conclusion, where the existence of a derivation is decided by           *)
(* matching.)                                                              *)
(***************************************************************************)
C25_BinHoldsUnprovable ==
    (/\ MeetsBin
     /\ PremisesDetermined
     /\ Ground(TopGoal))
        => ~Derivable(TopGoal, Top.height)

====
